---- MODULE Spec2Model ----
(***************************************************************************)
(* A model of aiohttp/client_exceptions.py: the client exception taxonomy. *)
(*                                                                         *)
(* The module is a set of class declarations, so the model is a model of   *)
(* the Python operations a caller performs on them: calling a class        *)
(* (object construction: __new__, argument binding, __init__), reading an  *)
(* attribute or property, isinstance, str() and repr().  The state is the  *)
(* module-level name `ssl` (bound by the import probe), the last           *)
(* constructor call, what that call produced (an exception object or a     *)
(* raised error) and the result of the last str()/repr() of that object.   *)
(*                                                                         *)
(* Python values are tagged records (field t is the Python type), so that  *)
(* None, strings, integers and objects can be compared with one another.   *)
(* Text is kept as TLA+ strings, built with \o and searched with SubSeq.   *)
(* The behaviour of the builtin bases (BaseException, OSError, ValueError, *)
(* ssl.SSLError, ssl.CertificateError, asyncio.TimeoutError) is that of    *)
(* CPython 3.11.                                                           *)
(***************************************************************************)
EXTENDS Integers, Sequences, FiniteSets, TLC

VARIABLES ssl, call, exc, out

vars == <<ssl, call, exc, out>>

(***************************************************************************)
(* Bounds of the model.                                                    *)
(***************************************************************************)
\* Longest response history passed to a ClientResponseError.
MaxHistory == 3

(***************************************************************************)
(* Python values.                                                          *)
(***************************************************************************)
None == [t |-> "NoneType"]
\* A C-level NULL slot (an OSError field that was never set).
Null == [t |-> "NULL"]
PyStr(s) == [t |-> "str", s |-> s]
PyInt(i) == [t |-> "int", i |-> i]
PyBool(b) == [t |-> "bool", b |-> b]
PyTuple(items) == [t |-> "tuple", items |-> items]
Raised(type) == [t |-> "raise", type |-> type]
IsRaise(v) == v.t = "raise"
IsObj(v) == v.t = "exception"
EmptyDict == [n \in {} |-> None]

\* The connection identity the connector passes: a (host, port, ssl) triple.
ConnectionKey(host, port, flag) ==
    [t |-> "ConnectionKey", host |-> PyStr(host), port |-> PyInt(port),
     ssl |-> PyBool(flag)]

(***************************************************************************)
(* The class graph.                                                        *)
(***************************************************************************)
\* The names of __all__.
Variants ==
    {"ClientError", "ClientConnectionError", "ClientOSError",
     "ClientConnectorError", "ClientProxyConnectionError",
     "ClientConnectorSSLError", "ClientConnectorCertificateError",
     "ServerConnectionError", "ServerTimeoutError",
     "ServerDisconnectedError", "ServerFingerprintMismatch",
     "ClientResponseError", "ClientHttpProxyError",
     "WSServerHandshakeError", "ContentTypeError",
     "ClientPayloadError", "InvalidURL"}

\* A bug: the TLS base is left out of ssl_error_bases.
ssl_error_bases_NoTls == <<"ClientConnectorError">>

\* ssl_error_bases (lines 172, 178)
ssl_error_bases ==
    IF ssl THEN <<"ClientConnectorError", "ssl.SSLError">>
    ELSE <<"ClientConnectorError">>

\* A bug: the fallback of certificate_errors_bases forgets ValueError.
certificate_errors_bases_NoValueError ==
    IF ssl THEN <<"ClientConnectorError", "ssl.CertificateError">>
    ELSE <<"ClientConnectorError">>

\* certificate_errors_bases (lines 169, 175)
certificate_errors_bases ==
    IF ssl THEN <<"ClientConnectorError", "ssl.CertificateError">>
    ELSE <<"ClientConnectorError", "ValueError">>

\* The bases in each class statement of the module, in order.
ClassBases(c) ==
    CASE c = "ClientError" -> <<"Exception">>
      [] c = "ClientResponseError" -> <<"ClientError">>
      [] c = "ContentTypeError" -> <<"ClientResponseError">>
      [] c = "WSServerHandshakeError" -> <<"ClientResponseError">>
      [] c = "ClientHttpProxyError" -> <<"ClientResponseError">>
      [] c = "ClientConnectionError" -> <<"ClientError">>
      [] c = "ClientOSError" -> <<"ClientConnectionError", "OSError">>
      [] c = "ClientConnectorError" -> <<"ClientOSError">>
      [] c = "ClientProxyConnectionError" -> <<"ClientConnectorError">>
      [] c = "ServerConnectionError" -> <<"ClientConnectionError">>
      [] c = "ServerDisconnectedError" -> <<"ServerConnectionError">>
      [] c = "ServerTimeoutError" ->
            <<"ServerConnectionError", "asyncio.TimeoutError">>
      [] c = "ServerFingerprintMismatch" -> <<"ServerConnectionError">>
      [] c = "ClientPayloadError" -> <<"ClientError">>
      [] c = "InvalidURL" -> <<"ClientError", "ValueError">>
      [] c = "ClientConnectorSSLError" -> ssl_error_bases
      [] c = "ClientConnectorCertificateError" -> certificate_errors_bases

\* The bases of the builtin classes the module derives from.
BuiltinBases(c) ==
    CASE c = "Exception" -> <<"BaseException">>
      [] c = "OSError" -> <<"Exception">>
      [] c = "ValueError" -> <<"Exception">>
      [] c = "asyncio.TimeoutError" -> <<"OSError">>
      [] c = "ssl.SSLError" -> <<"OSError">>
      [] c = "ssl.CertificateError" -> <<"ssl.SSLError", "ValueError">>
      [] c = "BaseException" -> <<>>

\* A bug: ServerTimeoutError loses its second base.
Bases_TimeoutDropped(c) ==
    IF c = "ServerTimeoutError" THEN <<"ServerConnectionError">>
    ELSE IF c \in Variants THEN ClassBases(c) ELSE BuiltinBases(c)

\* c.__bases__
Bases(c) == IF c \in Variants THEN ClassBases(c) ELSE BuiltinBases(c)

RECURSIVE Preorder(_)
\* The ancestors of the classes of bs, depth first, left to right.
PreorderAll(bs) ==
    LET F[i \in 0..Len(bs)] ==
            IF i = 0 THEN <<>> ELSE F[i - 1] \o Preorder(bs[i])
    IN F[Len(bs)]

\* The class and its ancestors, depth first, bases left to right.
Preorder(c) == <<c>> \o PreorderAll(Bases(c))

\* p with only the last occurrence of each of its elements.
KeepLast(p) ==
    LET F[i \in 0..Len(p)] ==
            IF i = 0 THEN <<>>
            ELSE IF \A j \in (i + 1)..Len(p) : p[j] # p[i]
                 THEN Append(F[i - 1], p[i])
                 ELSE F[i - 1]
    IN F[Len(p)]

\* The method resolution order: each class once, after all its subclasses.
MRO(c) == KeepLast(Preorder(c))

\* x is an element of the sequence s.
InSeq(s, x) == \E i \in 1..Len(s) : s[i] = x

IsSubclass(c, d) == InSeq(MRO(c), d)

IsInstance(v, d) == IsObj(v) /\ IsSubclass(v.cls, d)

\* The methods and properties each class body defines.
ClassDict(c) ==
    CASE c = "ClientResponseError" -> {"__init__"}
      [] c = "ClientConnectorError" ->
            {"__init__", "os_error", "host", "port", "ssl", "__str__"}
      [] c = "ServerDisconnectedError" -> {"__init__"}
      [] c = "ServerFingerprintMismatch" -> {"__init__", "__repr__"}
      [] c = "InvalidURL" -> {"__init__", "url", "__repr__"}
      [] c = "ClientConnectorCertificateError" ->
            {"__init__", "certificate_error", "host", "port", "ssl",
             "__str__"}
      [] c = "BaseException" -> {"__init__", "__str__", "__repr__"}
      [] c = "OSError" -> {"__init__", "__str__"}
      [] OTHER -> {}

\* The first class of the sequence that defines the name ("" if none does).
FirstDefining(classes, name) ==
    IF \A i \in 1..Len(classes) : name \notin ClassDict(classes[i]) THEN ""
    ELSE classes[CHOOSE i \in 1..Len(classes) :
                    /\ name \in ClassDict(classes[i])
                    /\ \A j \in 1..(i - 1) : name \notin ClassDict(classes[j])]

\* Attribute lookup on the type: the class whose definition of name wins.
Resolve(c, name) == FirstDefining(MRO(c), name)

\* super(after, self).name: the lookup continues past `after` in the MRO.
\* The part of the sequence m that follows its element x.
After(m, x) == SubSeq(m, (CHOOSE i \in 1..Len(m) : m[i] = x) + 1, Len(m))

ResolveSuper(c, after, name) == FirstDefining(After(MRO(c), after), name)

(***************************************************************************)
(* Text: str() and repr() of the values that reach a format.               *)
(***************************************************************************)
\* sub occurs in text.
Contains(text, sub) ==
    \E i \in 1..(Len(text) - Len(sub) + 1) :
        SubSeq(text, i, i + Len(sub) - 1) = sub

RECURSIVE ValueRepr(_)
\* repr(v) as text.
ValueRepr(v) ==
    CASE v.t = "NoneType" -> "None"
      [] v.t = "str" ->
            \* (no text here holds both kinds of quote)
            IF Contains(v.s, "'") THEN "\"" \o v.s \o "\""
            ELSE "'" \o v.s \o "'"
      [] v.t = "int" -> ToString(v.i)
      [] v.t = "bool" -> IF v.b THEN "True" ELSE "False"
      [] v.t = "tuple" ->
            LET F[i \in 0..Len(v.items)] ==
                    IF i = 0 THEN ""
                    ELSE F[i - 1] \o (IF i = 1 THEN "" ELSE ", ")
                         \o ValueRepr(v.items[i])
            IN "(" \o F[Len(v.items)]
               \o (IF Len(v.items) = 1 THEN "," ELSE "") \o ")"

\* str(v) as text: format(v, '') and '%s' % v of these types are str(v).
ValueStr(v) ==
    CASE v.t = "str" -> v.s
      [] v.t \in {"NoneType", "int", "bool", "tuple"} -> ValueRepr(v)

\* str(v) as a Python value; a raised error is passed on.
StrOf(v) == IF IsRaise(v) THEN v ELSE PyStr(ValueStr(v))

\* The first of the values that is a raised error (one of them is).
FirstRaise(values) ==
    values[CHOOSE i \in 1..Len(values) :
              /\ IsRaise(values[i])
              /\ \A j \in 1..(i - 1) : ~IsRaise(values[j])]

\* The pieces of a format, left to right: the first error raised while a
\* piece is evaluated ends the format, otherwise the text is their join.
Cat(parts) ==
    LET F[i \in 0..Len(parts)] ==
            IF i = 0 THEN "" ELSE F[i - 1] \o parts[i].s
    IN IF \E i \in 1..Len(parts) : IsRaise(parts[i]) THEN FirstRaise(parts)
       ELSE PyStr(F[Len(parts)])

(***************************************************************************)
(* Objects: attribute storage and the builtin exception protocol.          *)
(***************************************************************************)
\* self.name = v
SetAttr(self, name, v) == [self EXCEPT !.dict = (name :> v) @@ self.dict]

\* The instance dictionary's entry, or AttributeError.
DictGet(self, name) ==
    IF name \in DOMAIN self.dict THEN self.dict[name]
    ELSE Raised("AttributeError")

\* OSError's reading of its arguments: two to five are (errno, strerror,
\* ...), any other number leaves errno and strerror unset.
OSError_parse(self, args) ==
    IF Len(args) \in 2..5
    THEN [self EXCEPT !.args = SubSeq(args, 1, 2),
                      !.errno = args[1], !.strerror = args[2]]
    ELSE [self EXCEPT !.args = args]

\* OSError.__new__ leaves the arguments to __init__ when the type overrides
\* __init__; BaseException.__new__ keeps the positional arguments as args.
New(cls, pos) ==
    LET blank == [t |-> "exception", cls |-> cls, args |-> <<>>,
                  errno |-> Null, strerror |-> Null, dict |-> EmptyDict]
    IN IF IsSubclass(cls, "OSError")
       THEN IF Resolve(cls, "__init__") = "OSError"
            THEN OSError_parse(blank, pos)
            ELSE blank
       ELSE [blank EXCEPT !.args = pos]

\* BaseException.__init__(self, *args)
BaseException_init(self, args) == [self EXCEPT !.args = args]

\* OSError.__init__(self, *args): parses only what __new__ left to it.
OSError_init(self, args) ==
    IF Resolve(self.cls, "__init__") = "OSError" THEN self
    ELSE OSError_parse(self, args)

\* super().__init__(*args) called from the __init__ of class `from`; an
\* error raised while an argument is evaluated ends the call.
Super_init(self, from, args) ==
    IF \E i \in 1..Len(args) : IsRaise(args[i]) THEN FirstRaise(args)
    ELSE IF ResolveSuper(self.cls, from, "__init__") = "OSError"
    THEN OSError_init(self, args)
    ELSE BaseException_init(self, args)

\* BaseException.__str__
BaseException_str(self) ==
    CASE Len(self.args) = 0 -> PyStr("")
      [] Len(self.args) = 1 -> StrOf(self.args[1])
      [] OTHER -> StrOf(PyTuple(self.args))

\* OSError.__str__ (no filename is ever passed here)
OSError_str(self) ==
    IF self.errno # Null /\ self.strerror # Null
    THEN Cat(<<PyStr("[Errno "), StrOf(self.errno), PyStr("] "),
               StrOf(self.strerror)>>)
    ELSE BaseException_str(self)

\* BaseException.__repr__
BaseException_repr(self) ==
    PyStr(self.cls \o
          (IF Len(self.args) = 1 THEN "(" \o ValueRepr(self.args[1]) \o ")"
           ELSE ValueRepr(PyTuple(self.args))))

\* type(v).__name__
ClassName(v) ==
    CASE v.t = "exception" -> PyStr(v.cls)
      [] v.t = "raise" -> v
      [] OTHER -> PyStr(v.t)

(***************************************************************************)
(* Properties and attribute access.                                        *)
(***************************************************************************)
RECURSIVE GetAttr(_, _)

\* v.name where v itself may have failed to evaluate.
Attr(v, name) == IF IsRaise(v) THEN v ELSE GetAttr(v, name)

\* ClientConnectorError.os_error
ClientConnectorError_os_error(self) == DictGet(self, "_os_error")

\* ClientConnectorError.host
ClientConnectorError_host(self) ==
    Attr(DictGet(self, "_conn_key"), "host")

\* A bug: the port property reads the host.
ClientConnectorError_port_ReadsHost(self) ==
    Attr(DictGet(self, "_conn_key"), "host")

\* ClientConnectorError.port
ClientConnectorError_port(self) ==
    Attr(DictGet(self, "_conn_key"), "port")

\* ClientConnectorError.ssl
ClientConnectorError_ssl(self) ==
    Attr(DictGet(self, "_conn_key"), "ssl")

\* A bug: the property returns the attribute of the parent class.
ClientConnectorCertificateError_certificate_error_OsError(self) ==
    DictGet(self, "_os_error")

\* ClientConnectorCertificateError.certificate_error
ClientConnectorCertificateError_certificate_error(self) ==
    DictGet(self, "_certificate_error")

\* ClientConnectorCertificateError.host
ClientConnectorCertificateError_host(self) ==
    Attr(DictGet(self, "_conn_key"), "host")

\* ClientConnectorCertificateError.port
ClientConnectorCertificateError_port(self) ==
    Attr(DictGet(self, "_conn_key"), "port")

\* ClientConnectorCertificateError.ssl
ClientConnectorCertificateError_ssl(self) ==
    Attr(DictGet(self, "_conn_key"), "ssl")

\* A bug: the property returns the whole argument tuple.
InvalidURL_url_WholeArgs(self) == PyTuple(self.args)

\* InvalidURL.url
InvalidURL_url(self) ==
    IF Len(self.args) >= 1 THEN self.args[1] ELSE Raised("IndexError")

\* getattr(v, name) of an exception object, the property `name` being
\* defined by class `owner` ("" when no class defines one).
ExceptionGetAttr(v, name, owner) ==
    IF owner = "ClientConnectorCertificateError"
    THEN (CASE name = "certificate_error" ->
                 ClientConnectorCertificateError_certificate_error(v)
            [] name = "host" -> ClientConnectorCertificateError_host(v)
            [] name = "port" -> ClientConnectorCertificateError_port(v)
            [] name = "ssl" -> ClientConnectorCertificateError_ssl(v))
    ELSE IF owner = "ClientConnectorError"
    THEN (CASE name = "os_error" -> ClientConnectorError_os_error(v)
            [] name = "host" -> ClientConnectorError_host(v)
            [] name = "port" -> ClientConnectorError_port(v)
            [] name = "ssl" -> ClientConnectorError_ssl(v))
    ELSE IF owner = "InvalidURL" THEN InvalidURL_url(v)
    ELSE IF name = "args" THEN PyTuple(v.args)
    ELSE IF name \in {"errno", "strerror"} /\ IsSubclass(v.cls, "OSError")
    THEN (IF v[name] = Null THEN None ELSE v[name])
    ELSE DictGet(v, name)

\* getattr(v, name): a property of the type first, then the builtin
\* members of exceptions, then the instance dictionary.
GetAttr(v, name) ==
    CASE v.t = "ConnectionKey" ->
            IF name \in {"host", "port", "ssl"} THEN v[name]
            ELSE Raised("AttributeError")
      [] v.t = "exception" -> ExceptionGetAttr(v, name, Resolve(v.cls, name))
      [] OTHER -> Raised("AttributeError")

(***************************************************************************)
(* The constructors of the module.                                         *)
(***************************************************************************)
\* A bug: the history is stored without its repeated responses.
ClientResponseError_init_Dedup(self, request_info, history, code, message, headers) ==
    LET s1 == SetAttr(self, "request_info", request_info)
        s2 == SetAttr(s1, "code", code)
        s3 == SetAttr(s2, "message", message)
        s4 == SetAttr(s3, "headers", headers)
        s5 == SetAttr(s4, "history",
                      IF history.t = "tuple"
                      THEN PyTuple(KeepLast(history.items)) ELSE history)
    IN Super_init(s5, "ClientResponseError",
                  <<Cat(<<StrOf(code), PyStr(", message='"), StrOf(message),
                          PyStr("'")>>)>>)

\* ClientResponseError.__init__ (lines 38-46)
ClientResponseError_init(self, request_info, history, code, message, headers) ==
    LET s1 == SetAttr(self, "request_info", request_info)
        s2 == SetAttr(s1, "code", code)
        s3 == SetAttr(s2, "message", message)
        s4 == SetAttr(s3, "headers", headers)
        s5 == SetAttr(s4, "history", history)
    IN Super_init(s5, "ClientResponseError",
                  <<Cat(<<StrOf(code), PyStr(", message='"), StrOf(message),
                          PyStr("'")>>)>>)

\* A bug: the OS error is stored but its errno and strerror are not read.
ClientConnectorError_init_NoErrno(self, connection_key, os_error) ==
    LET s1 == SetAttr(self, "_conn_key", connection_key)
        s2 == SetAttr(s1, "_os_error", os_error)
    IN Super_init(s2, "ClientConnectorError", <<>>)

\* ClientConnectorError.__init__ (lines 80-83)
ClientConnectorError_init(self, connection_key, os_error) ==
    LET s1 == SetAttr(self, "_conn_key", connection_key)
        s2 == SetAttr(s1, "_os_error", os_error)
    IN Super_init(s2, "ClientConnectorError",
                  <<GetAttr(os_error, "errno"),
                    GetAttr(os_error, "strerror")>>)

\* ServerDisconnectedError.__init__ (lines 121-122)
ServerDisconnectedError_init(self, message) ==
    SetAttr(self, "message", message)

\* ServerFingerprintMismatch.__init__ (lines 132-136)
ServerFingerprintMismatch_init(self, expected, got, host, port) ==
    LET s1 == SetAttr(self, "expected", expected)
        s2 == SetAttr(s1, "got", got)
        s3 == SetAttr(s2, "host", host)
    IN SetAttr(s3, "port", port)

\* InvalidURL.__init__ (lines 156-157)
InvalidURL_init(self, url) == Super_init(self, "InvalidURL", <<url>>)

\* ClientConnectorCertificateError.__init__ (lines 188-190)
ClientConnectorCertificateError_init(self, connection_key, certificate_error) ==
    LET s1 == SetAttr(self, "_conn_key", connection_key)
    IN SetAttr(s1, "_certificate_error", certificate_error)

\* A keyword argument, or the parameter's default.
KwGet(kw, name, default) == IF name \in DOMAIN kw THEN kw[name] ELSE default

\* type(self).__init__(self, *pos, **kw), `init` being the class whose
\* __init__ the type resolves to: the arguments are bound to its
\* parameters (TypeError when they do not fit), then its body runs.
Initialize(self, init, pos, kw) ==
    CASE init = "ClientResponseError" ->
            IF Len(pos) # 2
               \/ ~(DOMAIN kw \subseteq {"code", "message", "headers"})
            THEN Raised("TypeError")
            ELSE ClientResponseError_init(self, pos[1], pos[2],
                     KwGet(kw, "code", PyInt(0)),
                     KwGet(kw, "message", PyStr("")),
                     KwGet(kw, "headers", None))
      [] init = "ClientConnectorError" ->
            IF Len(pos) # 2 \/ DOMAIN kw # {} THEN Raised("TypeError")
            ELSE ClientConnectorError_init(self, pos[1], pos[2])
      [] init = "ServerDisconnectedError" ->
            IF Len(pos) > 1 \/ DOMAIN kw # {} THEN Raised("TypeError")
            ELSE ServerDisconnectedError_init(self,
                     IF Len(pos) = 1 THEN pos[1] ELSE None)
      [] init = "ServerFingerprintMismatch" ->
            IF Len(pos) # 4 \/ DOMAIN kw # {} THEN Raised("TypeError")
            ELSE ServerFingerprintMismatch_init(self, pos[1], pos[2],
                                                pos[3], pos[4])
      [] init = "InvalidURL" ->
            IF Len(pos) # 1 \/ DOMAIN kw # {} THEN Raised("TypeError")
            ELSE InvalidURL_init(self, pos[1])
      [] init = "ClientConnectorCertificateError" ->
            IF Len(pos) # 2 \/ DOMAIN kw # {} THEN Raised("TypeError")
            ELSE ClientConnectorCertificateError_init(self, pos[1], pos[2])
      [] init = "OSError" ->
            IF DOMAIN kw # {} THEN Raised("TypeError")
            ELSE OSError_init(self, pos)
      [] init = "BaseException" ->
            IF DOMAIN kw # {} THEN Raised("TypeError")
            ELSE BaseException_init(self, pos)

\* cls(*pos, **kw): the object __new__ makes, then its __init__.
Call(cls, pos, kw) ==
    Initialize(New(cls, pos), Resolve(cls, "__init__"), pos, kw)

(***************************************************************************)
(* Diagnostic strings.                                                     *)
(***************************************************************************)
\* ClientConnectorError.__str__ (lines 101-103)
ClientConnectorError_str(self) ==
    IF IsRaise(GetAttr(self, "strerror")) THEN GetAttr(self, "strerror")
    ELSE Cat(<<PyStr("Cannot connect to host "),
               StrOf(GetAttr(self, "host")), PyStr(":"),
               StrOf(GetAttr(self, "port")), PyStr(" ssl:"),
               StrOf(GetAttr(self, "ssl")), PyStr(" ["),
               StrOf(GetAttr(self, "strerror")), PyStr("]")>>)

\* ClientConnectorCertificateError.__str__ (lines 208-211)
ClientConnectorCertificateError_str(self) ==
    Cat(<<PyStr("Cannot connect to host "),
          StrOf(GetAttr(self, "host")), PyStr(":"),
          StrOf(GetAttr(self, "port")), PyStr(" ssl:"),
          StrOf(GetAttr(self, "ssl")), PyStr(" ["),
          ClassName(GetAttr(self, "certificate_error")), PyStr(": "),
          StrOf(Attr(GetAttr(self, "certificate_error"), "args")),
          PyStr("]")>>)

\* A bug: the expected fingerprint is printed in place of the received one.
ServerFingerprintMismatch_repr_ExpectedTwice(self) ==
    Cat(<<PyStr("<"), PyStr(self.cls), PyStr(" expected="),
          StrOf(GetAttr(self, "expected")), PyStr(" got="),
          StrOf(GetAttr(self, "expected")), PyStr(" host="),
          StrOf(GetAttr(self, "host")), PyStr(" port="),
          StrOf(GetAttr(self, "port")), PyStr(">")>>)

\* ServerFingerprintMismatch.__repr__ (lines 138-141)
ServerFingerprintMismatch_repr(self) ==
    Cat(<<PyStr("<"), PyStr(self.cls), PyStr(" expected="),
          StrOf(GetAttr(self, "expected")), PyStr(" got="),
          StrOf(GetAttr(self, "got")), PyStr(" host="),
          StrOf(GetAttr(self, "host")), PyStr(" port="),
          StrOf(GetAttr(self, "port")), PyStr(">")>>)

\* InvalidURL.__repr__ (lines 163-164)
InvalidURL_repr(self) ==
    Cat(<<PyStr("<"), PyStr(self.cls), PyStr(" "),
          StrOf(GetAttr(self, "url")), PyStr(">")>>)

\* self.__str__(), `m` being the class whose __str__ the type resolves to.
StrBy(self, m) ==
    CASE m = "ClientConnectorError" -> ClientConnectorError_str(self)
      [] m = "ClientConnectorCertificateError" ->
            ClientConnectorCertificateError_str(self)
      [] m = "OSError" -> OSError_str(self)
      [] m = "BaseException" -> BaseException_str(self)

\* str(self)
Str(self) == StrBy(self, Resolve(self.cls, "__str__"))

\* self.__repr__(), `m` being the class whose __repr__ the type resolves to.
ReprBy(self, m) ==
    CASE m = "ServerFingerprintMismatch" -> ServerFingerprintMismatch_repr(self)
      [] m = "InvalidURL" -> InvalidURL_repr(self)
      [] m = "BaseException" -> BaseException_repr(self)

\* repr(self)
Repr(self) == ReprBy(self, Resolve(self.cls, "__repr__"))

(***************************************************************************)
(* The arguments callers pass.                                             *)
(***************************************************************************)
Hosts == {"example.com", "h"}
Ports == {443, 1234}
Keys == {ConnectionKey(h, p, f) : h \in Hosts, p \in Ports, f \in BOOLEAN}

\* The errors a connector wraps: OS errors with and without errno, and an
\* error that is no OSError.
UnderlyingErrors ==
    {Call("OSError", <<PyInt(61), PyStr("Connection refused")>>, EmptyDict),
     Call("OSError", <<>>, EmptyDict),
     Call("ValueError", <<PyStr("bad cert")>>, EmptyDict)}

RequestInfos == {[t |-> "RequestInfo", url |-> "http://example.com/"]}
Responses == {[t |-> "ClientResponse", status |-> 301],
              [t |-> "ClientResponse", status |-> 302]}
HeaderMaps == {[t |-> "CIMultiDictProxy", location |-> "/next"]}

\* The sequences over S of length at most n.
SeqsUpTo(S, n) == UNION {[1..k -> S] : k \in 0..n}

Histories == {PyTuple(h) : h \in SeqsUpTo(Responses, MaxHistory)}

\* The calls that pass the first k of the positional arguments drawn from
\* the sets of `domains`, for every k: trailing arguments may be left out.
Prefixes(domains) ==
    UNION {{p \in [1..k -> UNION {domains[i] : i \in 1..Len(domains)}] :
               \A i \in 1..k : p[i] \in domains[i]} : k \in 0..Len(domains)}

\* The keyword arguments: any subset of the names, each with one of its
\* values.
Keywords(domains) ==
    UNION {{kw \in [names -> UNION {domains[n] : n \in DOMAIN domains}] :
               \A n \in names : kw[n] \in domains[n]} :
           names \in SUBSET DOMAIN domains}

ResponseClasses ==
    {"ClientResponseError", "ContentTypeError", "WSServerHandshakeError",
     "ClientHttpProxyError"}
ConnectorClasses ==
    {"ClientConnectorError", "ClientProxyConnectionError",
     "ClientConnectorSSLError"}
PlainClasses ==
    {"ClientError", "ClientConnectionError", "ServerConnectionError",
     "ServerTimeoutError", "ClientPayloadError"}

(***************************************************************************)
(* The state machine.                                                      *)
(***************************************************************************)
NoCall == [cls |-> "", pos |-> <<>>, kw |-> EmptyDict]
NoOut == [op |-> "", val |-> None]

\* The import probe (lines 6-9) binds ssl to the module or to None; no
\* object has been constructed yet.
Init ==
    /\ ssl \in BOOLEAN
    /\ call = NoCall
    /\ exc = None
    /\ out = NoOut

\* In each New action the caller evaluates cls(*pos, **kw): the call and
\* what it produced (the object, or the error raised) are recorded.  The
\* module keeps no state between calls and its objects are never mutated,
\* so a behaviour follows one call and the value it produced.
Fresh == call = NoCall /\ exc = None

NewClientResponseError ==
    \E cls \in ResponseClasses :
      \E pos \in Prefixes(<<RequestInfos \cup {None}, Histories \cup {None}>>) :
        \E kw \in Keywords([code |-> {PyInt(404)},
                            message |-> {PyStr("Not Found")},
                            headers |-> HeaderMaps \cup {None}]) :
      /\ Fresh
      /\ call' = [cls |-> cls, pos |-> pos, kw |-> kw]
          /\ exc' = Call(cls, pos, kw)
          /\ out' = NoOut
          /\ UNCHANGED ssl

NewClientOSError ==
    \E pos \in Prefixes(<<{PyInt(61), None},
                          {PyStr("Connection refused"), None}>>) :
      /\ Fresh
      /\ call' = [cls |-> "ClientOSError", pos |-> pos, kw |-> EmptyDict]
      /\ exc' = Call("ClientOSError", pos, EmptyDict)
      /\ out' = NoOut
      /\ UNCHANGED ssl

NewClientConnectorError ==
    \E cls \in ConnectorClasses :
      \E pos \in Prefixes(<<Keys \cup {None}, UnderlyingErrors \cup {None}>>) :
      /\ Fresh
      /\ call' = [cls |-> cls, pos |-> pos, kw |-> EmptyDict]
        /\ exc' = Call(cls, pos, EmptyDict)
        /\ out' = NoOut
        /\ UNCHANGED ssl

NewClientConnectorCertificateError ==
    \E pos \in Prefixes(<<Keys \cup {None}, UnderlyingErrors \cup {None}>>) :
      /\ Fresh
      /\ call' = [cls |-> "ClientConnectorCertificateError", pos |-> pos, kw |-> EmptyDict]
      /\ exc' = Call("ClientConnectorCertificateError", pos, EmptyDict)
      /\ out' = NoOut
      /\ UNCHANGED ssl

NewServerDisconnectedError ==
    \E pos \in Prefixes(<<{PyStr("Server disconnected"), None}>>) :
      /\ Fresh
      /\ call' = [cls |-> "ServerDisconnectedError", pos |-> pos, kw |-> EmptyDict]
      /\ exc' = Call("ServerDisconnectedError", pos, EmptyDict)
      /\ out' = NoOut
      /\ UNCHANGED ssl

NewServerFingerprintMismatch ==
    \E pos \in Prefixes(<<{PyStr("AA:BB"), PyStr("CC:DD"), None},
                          {PyStr("AA:BB"), PyStr("CC:DD"), None},
                          {PyStr("h"), None}, {PyInt(1234), None}>>) :
      /\ Fresh
      /\ call' = [cls |-> "ServerFingerprintMismatch", pos |-> pos, kw |-> EmptyDict]
      /\ exc' = Call("ServerFingerprintMismatch", pos, EmptyDict)
      /\ out' = NoOut
      /\ UNCHANGED ssl

NewInvalidURL ==
    \E pos \in Prefixes(<<{PyStr("not a url"), PyStr("http://"), None},
                          {PyStr("extra")}>>) :
      /\ Fresh
      /\ call' = [cls |-> "InvalidURL", pos |-> pos, kw |-> EmptyDict]
      /\ exc' = Call("InvalidURL", pos, EmptyDict)
      /\ out' = NoOut
      /\ UNCHANGED ssl

\* The classes with an empty body take what their builtin bases take.
NewPlain ==
    \E cls \in PlainClasses :
      \E pos \in Prefixes(<<{PyStr("m")}>>) :
      /\ Fresh
      /\ call' = [cls |-> cls, pos |-> pos, kw |-> EmptyDict]
        /\ exc' = Call(cls, pos, EmptyDict)
        /\ out' = NoOut
        /\ UNCHANGED ssl

\* str(exc) of the object the last call produced.
CallStr ==
    /\ IsObj(exc)
    /\ out' = [op |-> "str", val |-> Str(exc)]
    /\ UNCHANGED <<ssl, call, exc>>

\* repr(exc) of the object the last call produced.
CallRepr ==
    /\ IsObj(exc)
    /\ out' = [op |-> "repr", val |-> Repr(exc)]
    /\ UNCHANGED <<ssl, call, exc>>

Next ==
    \/ NewClientResponseError
    \/ NewClientOSError
    \/ NewClientConnectorError
    \/ NewClientConnectorCertificateError
    \/ NewServerDisconnectedError
    \/ NewServerFingerprintMismatch
    \/ NewInvalidURL
    \/ NewPlain
    \/ CallStr
    \/ CallRepr

Spec == Init /\ [][Next]_vars

(***************************************************************************)
(* Properties.                                                             *)
(***************************************************************************)
\* The last call passed a connection identity as its first argument.
KeyPassed == Len(call.pos) >= 1 /\ call.pos[1] \in Keys

\* The last call passed an OS error (an object with errno and strerror) as
\* its second argument.
OsErrorPassed == Len(call.pos) >= 2 /\ IsInstance(call.pos[2], "OSError")

\* The last call passed an exception object as its second argument.
ErrorPassed == Len(call.pos) >= 2 /\ IsObj(call.pos[2])

\* The number of positional parameters without a default of each __init__
\* the module defines.
Required(cls) ==
    CASE cls \in ResponseClasses -> 2
      [] cls \in ConnectorClasses -> 2
      [] cls = "ClientConnectorCertificateError" -> 2
      [] cls = "ServerFingerprintMismatch" -> 4
      [] cls = "InvalidURL" -> 1

\* C1: a constructed ClientConnectorSSLError or
\* ClientConnectorCertificateError is, with and without the ssl module, an
\* instance of ClientConnectionError, of ClientConnectorError and of its own
\* class, and with the ssl module also of ssl.SSLError, respectively of
\* ssl.CertificateError.
C1_TlsVariantsAreConnectorErrors ==
    (IsObj(exc) /\ exc.cls \in {"ClientConnectorSSLError",
                                "ClientConnectorCertificateError"}) =>
        /\ IsInstance(exc, "ClientConnectionError")
        /\ IsInstance(exc, "ClientConnectorError")
        /\ IsInstance(exc, exc.cls)
        /\ (ssl /\ exc.cls = "ClientConnectorSSLError")
              => IsInstance(exc, "ssl.SSLError")
        /\ (ssl /\ exc.cls = "ClientConnectorCertificateError")
              => IsInstance(exc, "ssl.CertificateError")

C1_Witness ==
    /\ ssl
    /\ IsObj(exc)
    /\ exc.cls = "ClientConnectorSSLError"
    /\ IsInstance(exc, "ssl.SSLError")

\* The calls C2 is about: without the ssl module, a ClientConnectorSSLError
\* from a connection identity and an OS error, or a
\* ClientConnectorCertificateError from a connection identity and an error.
C2_Case ==
    /\ ~ssl
    /\ KeyPassed
    /\ \/ call.cls = "ClientConnectorSSLError" /\ OsErrorPassed
       \/ call.cls = "ClientConnectorCertificateError" /\ ErrorPassed

\* C2 as stated: without the ssl module, both constructions succeed and
\* both objects are instances of ValueError and of ClientConnectorError.
C2_Original ==
    C2_Case =>
        /\ IsObj(exc)
        /\ IsInstance(exc, "ValueError")
        /\ IsInstance(exc, "ClientConnectorError")

\* C2 (amended): without the ssl module, both constructions succeed and
\* both objects are instances of ClientConnectorError, but only the
\* ClientConnectorCertificateError is an instance of ValueError; the
\* ClientConnectorSSLError is not.
C2_OnlyCertificateErrorIsValueError ==
    C2_Case =>
        /\ IsObj(exc)
        /\ IsInstance(exc, "ClientConnectorError")
        /\ IsInstance(exc, "ValueError")
              <=> (exc.cls = "ClientConnectorCertificateError")

C2_Witness ==
    /\ C2_Case
    /\ IsObj(exc)
    /\ exc.cls = "ClientConnectorCertificateError"
    /\ IsInstance(exc, "ValueError")

\* The calls C3 is about: a connector error constructed from a connection
\* identity and an OS error.
C3_Case ==
    /\ call.cls \in ConnectorClasses
    /\ KeyPassed
    /\ OsErrorPassed
    /\ IsObj(exc)

\* host, port and ssl of the object are those of the identity passed.
C3_Accessors ==
    /\ GetAttr(exc, "host") = call.pos[1].host
    /\ GetAttr(exc, "port") = call.pos[1].port
    /\ GetAttr(exc, "ssl") = call.pos[1].ssl

\* The text "<host>:<port>" of the identity passed.
C3_HostPort ==
    ValueStr(call.pos[1].host) \o ":" \o ValueStr(call.pos[1].port)

\* C3 as stated: the accessors return the identity's values, and str() of
\* the object contains "<host>:<port>" and "tls:<flag>".
C3_Original ==
    C3_Case =>
        /\ C3_Accessors
        /\ out.op = "str" =>
              /\ out.val.t = "str"
              /\ Contains(out.val.s, C3_HostPort)
              /\ Contains(out.val.s, "tls:" \o ValueStr(call.pos[1].ssl))

\* C3 (amended): the accessors return the identity's values, and str() of
\* the object contains "<host>:<port>" and "ssl:<flag>", the flag written
\* True or False.
C3_StrNamesHostPortAndSslFlag ==
    C3_Case =>
        /\ C3_Accessors
        /\ out.op = "str" =>
              /\ out.val.t = "str"
              /\ Contains(out.val.s, C3_HostPort)
              /\ Contains(out.val.s,
                          "ssl:" \o (IF call.pos[1].ssl.b THEN "True"
                                     ELSE "False"))

C3_Witness ==
    /\ C3_Case
    /\ call.cls = "ClientConnectorError"
    /\ call.pos[1] = ConnectionKey("example.com", 443, TRUE)
    /\ GetAttr(call.pos[2], "errno") = PyInt(61)
    /\ out.op = "str"
    /\ Contains(out.val.s, "example.com:443")

\* C4: every accessor of a constructed object returns the value the call
\* supplied for it.
C4_AccessorsReturnWhatWasSupplied ==
    IsObj(exc) =>
        /\ call.cls \in ResponseClasses =>
              /\ GetAttr(exc, "request_info") = call.pos[1]
              /\ GetAttr(exc, "history") = call.pos[2]
              /\ \A n \in DOMAIN call.kw : GetAttr(exc, n) = call.kw[n]
        /\ (call.cls = "ClientOSError" /\ Len(call.pos) = 2) =>
              /\ GetAttr(exc, "errno") = call.pos[1]
              /\ GetAttr(exc, "strerror") = call.pos[2]
        /\ call.cls \in ConnectorClasses =>
              /\ GetAttr(exc, "os_error") = call.pos[2]
              /\ GetAttr(exc, "errno") = GetAttr(call.pos[2], "errno")
              /\ GetAttr(exc, "strerror") = GetAttr(call.pos[2], "strerror")
        /\ call.cls = "ClientConnectorCertificateError" =>
              GetAttr(exc, "certificate_error") = call.pos[2]
        /\ (call.cls \in ConnectorClasses
                           \cup {"ClientConnectorCertificateError"}
            /\ KeyPassed) =>
              /\ GetAttr(exc, "host") = call.pos[1].host
              /\ GetAttr(exc, "port") = call.pos[1].port
              /\ GetAttr(exc, "ssl") = call.pos[1].ssl
        /\ (call.cls = "ServerDisconnectedError" /\ Len(call.pos) = 1) =>
              GetAttr(exc, "message") = call.pos[1]
        /\ call.cls = "ServerFingerprintMismatch" =>
              /\ GetAttr(exc, "expected") = call.pos[1]
              /\ GetAttr(exc, "got") = call.pos[2]
              /\ GetAttr(exc, "host") = call.pos[3]
              /\ GetAttr(exc, "port") = call.pos[4]
        /\ call.cls = "InvalidURL" => GetAttr(exc, "url") = call.pos[1]

C4_Witness ==
    /\ IsObj(exc)
    /\ call.cls = "ClientConnectorCertificateError"
    /\ KeyPassed
    /\ ErrorPassed
    /\ GetAttr(exc, "certificate_error") = call.pos[2]
    /\ GetAttr(exc, "host") = PyStr("h")

\* C5: the history read back from a ClientResponseError (or a subclass) has
\* the length of the history passed and the same response at each index.
C5_HistoryIsKeptVerbatim ==
    (IsObj(exc) /\ call.cls \in ResponseClasses /\ call.pos[2].t = "tuple") =>
        /\ GetAttr(exc, "history").t = "tuple"
        /\ Len(GetAttr(exc, "history").items) = Len(call.pos[2].items)
        /\ \A i \in 1..Len(call.pos[2].items) :
              GetAttr(exc, "history").items[i] = call.pos[2].items[i]

C5_Witness ==
    /\ IsObj(exc)
    /\ call.cls = "ContentTypeError"
    /\ call.pos[2].t = "tuple"
    /\ Len(call.pos[2].items) = 3
    /\ call.pos[2].items[1] = call.pos[2].items[3]
    /\ call.pos[2].items[1] # call.pos[2].items[2]
    /\ GetAttr(exc, "history") = call.pos[2]

\* C6: InvalidURL(u) has url = u, is an instance of ClientError and of
\* ValueError, and is no instance of ClientConnectionError.
C6_InvalidURL ==
    (IsObj(exc) /\ call.cls = "InvalidURL") =>
        /\ GetAttr(exc, "url") = call.pos[1]
        /\ IsInstance(exc, "ClientError")
        /\ IsInstance(exc, "ValueError")
        /\ ~IsInstance(exc, "ClientConnectionError")

C6_Witness ==
    /\ IsObj(exc)
    /\ call.cls = "InvalidURL"
    /\ GetAttr(exc, "url") = PyStr("not a url")

\* C7: ServerFingerprintMismatch(expected, got, host, port) returns the
\* four values unchanged, and both str() and repr() of it contain the
\* expected and the received fingerprint.
C7_FingerprintMismatch ==
    (IsObj(exc) /\ call.cls = "ServerFingerprintMismatch") =>
        /\ GetAttr(exc, "expected") = call.pos[1]
        /\ GetAttr(exc, "got") = call.pos[2]
        /\ GetAttr(exc, "host") = call.pos[3]
        /\ GetAttr(exc, "port") = call.pos[4]
        /\ out.op \in {"str", "repr"} =>
              /\ out.val.t = "str"
              /\ Contains(out.val.s, ValueStr(call.pos[1]))
              /\ Contains(out.val.s, ValueStr(call.pos[2]))

C7_Witness ==
    /\ IsObj(exc)
    /\ call.cls = "ServerFingerprintMismatch"
    /\ call.pos = <<PyStr("AA:BB"), PyStr("CC:DD"), PyStr("h"), PyInt(1234)>>
    /\ out.op = "repr"
    /\ Contains(out.val.s, "expected=AA:BB got=CC:DD")

\* C8: str() of a constructed object never raises, whatever fields of it
\* are None.
C8_StrNeverRaises ==
    (IsObj(exc) /\ out.op = "str") => out.val.t = "str"

\* C9 as stated: a call that leaves out a mandatory argument fails, for
\* every class with mandatory fields, ClientOSError (errno and strerror)
\* among them, and a call that passes them all succeeds.
C9_Original ==
    /\ (call.cls \in ResponseClasses \cup ConnectorClasses
                       \cup {"ClientConnectorCertificateError",
                             "ServerFingerprintMismatch", "InvalidURL"}
        /\ Len(call.pos) < Required(call.cls)) => IsRaise(exc)
    /\ (call.cls = "ClientOSError" /\ Len(call.pos) < 2) => IsRaise(exc)
    /\ (call.cls = "ClientOSError" /\ Len(call.pos) = 2) => IsObj(exc)

\* C9 (amended): a call that leaves out a required positional argument
\* fails with TypeError for ClientResponseError and its subclasses,
\* ClientConnectorError, ClientProxyConnectionError, ClientConnectorSSLError,
\* ClientConnectorCertificateError, ServerFingerprintMismatch and
\* InvalidURL; ClientOSError is constructible with any of its arguments
\* left out; an argument that is None counts as passed, except that the
\* constructor of ClientConnectorError fails with AttributeError when the
\* OS error is None or has no errno; and a call that passes every required
\* argument (an OS error with errno and strerror where one is required)
\* succeeds.
C9_OmittedArgumentsFail ==
    /\ (call.cls \in ResponseClasses \cup ConnectorClasses
                       \cup {"ClientConnectorCertificateError",
                             "ServerFingerprintMismatch", "InvalidURL"}
        /\ Len(call.pos) < Required(call.cls)) => exc = Raised("TypeError")
    /\ call.cls = "ClientOSError" => IsObj(exc)
    /\ (call.cls \in ConnectorClasses /\ Len(call.pos) = 2) =>
          IF OsErrorPassed THEN IsObj(exc)
          ELSE exc = Raised("AttributeError")
    /\ (call.cls \in ResponseClasses
                       \cup {"ClientConnectorCertificateError",
                             "ServerFingerprintMismatch", "InvalidURL"}
        /\ Len(call.pos) = Required(call.cls)) => IsObj(exc)

C9_Witness ==
    /\ call.cls = "ClientConnectorError"
    /\ KeyPassed
    /\ Len(call.pos) = 2
    /\ call.pos[2] = None
    /\ exc = Raised("AttributeError")

\* The classes C10 lists as connection failures.
C10_ConnectionClasses ==
    {"ClientConnectionError", "ClientOSError", "ClientConnectorError",
     "ClientProxyConnectionError", "ClientConnectorSSLError",
     "ClientConnectorCertificateError", "ServerConnectionError",
     "ServerDisconnectedError", "ServerTimeoutError",
     "ServerFingerprintMismatch"}

\* C10: every class of the module is a ClientError; the subclasses of
\* ClientConnectionError are exactly the listed ones (so the response
\* errors, ClientPayloadError and InvalidURL are none);
\* ServerDisconnectedError, ServerTimeoutError and ServerFingerprintMismatch
\* are ServerConnectionErrors; ServerTimeoutError is an asyncio.TimeoutError;
\* and a constructed object is an instance of what its class is a subclass
\* of.
C10_ClassificationTree ==
    /\ \A c \in Variants :
          /\ IsSubclass(c, "ClientError")
          /\ IsSubclass(c, "ClientConnectionError")
                <=> (c \in C10_ConnectionClasses)
          /\ c \in ResponseClasses \cup {"ClientPayloadError", "InvalidURL"}
                => ~IsSubclass(c, "ClientConnectionError")
          /\ c \in {"ServerDisconnectedError", "ServerTimeoutError",
                    "ServerFingerprintMismatch"}
                => IsSubclass(c, "ServerConnectionError")
    /\ IsSubclass("ServerTimeoutError", "asyncio.TimeoutError")
    /\ IsObj(exc) =>
          /\ exc.cls = call.cls
          /\ IsInstance(exc, "ClientError")
          /\ IsInstance(exc, "ClientConnectionError")
                <=> (call.cls \in C10_ConnectionClasses)
          /\ call.cls = "ServerTimeoutError"
                => IsInstance(exc, "asyncio.TimeoutError")

C10_Witness ==
    /\ IsObj(exc)
    /\ call.cls = "ServerTimeoutError"
    /\ IsInstance(exc, "asyncio.TimeoutError")
    /\ IsInstance(exc, "ClientConnectionError")

====
